---- MODULE Spec2Model ----
(***************************************************************************)
(* A model of the band/musician domain classes of the repository:          *)
(*   src/Tijana/music/musician.py  Musician, Singer, Songwriter,           *)
(*                                 SingerSongwriter                        *)
(*   src/Tijana/music/band.py      Band, BandNameError                     *)
(*   src/Tijana/music/enums.py     Vocals, Instrument                      *)
(*                                                                         *)
(* Python values are records [tag, v]: tag is the Python type and v the    *)
(* value's text as a sequence of characters.  Objects of the repository's  *)
(* classes are records holding their class and their instance attributes.  *)
(***************************************************************************)
EXTENDS Integers, Sequences, FiniteSets, TLC

VARIABLES
    today,      \* the calendar day date.today() returns
    def_today,  \* date.today() as evaluated when class Band was defined
    mus,        \* the Musician objects the script holds, by variable slot
    band,       \* the Band object under test (left operand of ==)
    band2,      \* a second Band object (right operand of ==)
    inp,        \* constructor arguments drawn for the two Bands
    hist,       \* calls made on band since its construction / last iter()
    ret,        \* what the last call returned or raised
    bands,      \* the list bands of the script
    file,       \* the content of the binary file data/bands
    loops       \* the for loops running over band

vars == <<today, def_today, mus, band, band2, inp, hist, ret, bands, file, loops>>

----------------------------------------------------------------------------
(* Bounds of the model *)

\* longest name string passed to a Musician constructor or name setter
MaxNameLen == 1
\* longest name string passed to the Band constructor
MaxBandNameLen == 2
\* most members passed to the Band constructor
MaxMembers == 2
\* how many times the calendar day advances during a run
MaxTicks == 1
\* the count of iter() calls on one Band saturates here
MaxIters == 2
\* most bands in the list that is saved
MaxBands == 2
\* most expressions of gratitude passed to play
MaxGratitude == 2
\* most keyword messages, besides rhythm_count, passed to play
MaxMessages == 2
\* the body of the outer loop may break out of the inner loop only while
\* the outer loop has been given fewer members than this
MaxRounds == 3

----------------------------------------------------------------------------
(* Python values *)

PyStr(s) == [tag |-> "str", v |-> s]
PyNone == [tag |-> "NoneType", v |-> <<>>]
PyInt7 == [tag |-> "int", v |-> <<"7">>]
PyTrue == [tag |-> "bool", v |-> <<"True">>]
PyFalse == [tag |-> "bool", v |-> <<"False">>]
\* the marker of an instance attribute the object does not have
Absent == [tag |-> "<no attribute>", v |-> <<>>]

\* isinstance(x, str)
IsStr(x) == x.tag = "str"

\* no list to save, no file written, no for loop running
NoFile == [written |-> FALSE]
NoLoops == [pc |-> "none"]
PersistIdle == bands = <<>> /\ file = NoFile /\ loops = NoLoops

\* all strings of the character "a" up to length n
RECURSIVE Rep(_)
Rep(n) == IF n = 0 THEN <<>> ELSE <<"a">> \o Rep(n - 1)

\* a value that is not a string
NonStrInputs == {PyInt7}
\* the values passed as a musician's name
NameInputs == {PyStr(Rep(n)) : n \in 0..MaxNameLen} \cup NonStrInputs

\* enums.py
LEAD_VOCALS == [tag |-> "Vocals", v |-> <<"l","e","a","d"," ","v","o","c","a","l","s">>]
BACKGROUND_VOCALS == [tag |-> "Vocals",
    v |-> <<"b","a","c","k","g","r","o","u","n","d"," ","v","o","c","a","l","s">>]
RHYTHM_GUITAR == [tag |-> "Instrument",
    v |-> <<"r","h","y","t","h","m"," ","g","u","i","t","a","r">>]
BASS == [tag |-> "Instrument", v |-> <<"b","a","s","s">>]

\* isinstance(x, Vocals), isinstance(x, Instrument)
IsVocals(x) == x.tag = "Vocals"
IsInstrument(x) == x.tag = "Instrument"

\* the string 'unknown'
Unknown == PyStr(<<"u","n","k","n","o","w","n">>)

----------------------------------------------------------------------------
(* musician.py: the Musician hierarchy *)

MusicianClasses == {"Musician", "Singer", "Songwriter", "SingerSongwriter"}

\* the method resolution order of each class (without object)
MRO(cls) ==
    CASE cls = "Musician" -> <<"Musician">>
      [] cls = "Singer" -> <<"Singer", "Musician">>
      [] cls = "Songwriter" -> <<"Songwriter", "Musician">>
      [] cls = "SingerSongwriter" ->
            <<"SingerSongwriter", "Singer", "Songwriter", "Musician">>
      [] OTHER -> <<cls>>

\* isinstance(obj, cls)
IsInstance(obj, cls) == \E k \in DOMAIN MRO(obj.cls) : MRO(obj.cls)[k] = cls

\* a new object of class cls with no instance attributes yet
Blank(id, cls) ==
    [id |-> id, cls |-> cls, name |-> Absent, is_band_member |-> Absent,
     vocals |-> Absent, instrument |-> Absent]

\* faulty variant: the setter stores whatever it is given
name_setter_raw(self, name) == [self EXCEPT !.name = name]

\* @name.setter: self.__name = name if isinstance(name, str) else 'unknown'
name_setter(self, name) ==
    [self EXCEPT !.name = IF IsStr(name) THEN name ELSE Unknown]

\* faulty variant: the constructor writes the private field, bypassing the setter
Musician__init__direct(self, name, is_band_member) ==
    [self EXCEPT !.name = name, !.is_band_member = is_band_member]

\* Musician.__init__: self.name = name goes through the property setter
Musician__init__(self, name, is_band_member) ==
    [name_setter(self, name) EXCEPT !.is_band_member = is_band_member]

\* Songwriter.__init__(instrument, **kwargs): super().__init__(**kwargs) is
\* Musician.__init__ for both Songwriter and SingerSongwriter objects
Songwriter__init__(self, instrument, name, is_band_member) ==
    [Musician__init__(self, name, is_band_member) EXCEPT
        !.instrument = IF IsInstrument(instrument) THEN instrument ELSE PyNone]

\* Singer.__init__(vocals, **kwargs): super().__init__(**kwargs) is the next
\* class in the MRO of self: Songwriter for a SingerSongwriter, else Musician
Singer__init__(self, vocals, instrument, name, is_band_member) ==
    LET base == IF self.cls = "SingerSongwriter"
                THEN Songwriter__init__(self, instrument, name, is_band_member)
                ELSE Musician__init__(self, name, is_band_member)
    IN  [base EXCEPT !.vocals = IF IsVocals(vocals) THEN vocals ELSE PyNone]

\* SingerSongwriter.__init__(**kwargs): super().__init__(**kwargs)
SingerSongwriter__init__(self, vocals, instrument, name, is_band_member) ==
    Singer__init__(self, vocals, instrument, name, is_band_member)

\* cls(...): the constructor call, by class.  vocals and instrument are
\* passed only to the classes that take them.
New(id, cls, name, is_band_member, vocals, instrument) ==
    CASE cls = "Musician" -> Musician__init__(Blank(id, cls), name, is_band_member)
      [] cls = "Singer" ->
            Singer__init__(Blank(id, cls), vocals, Absent, name, is_band_member)
      [] cls = "Songwriter" ->
            Songwriter__init__(Blank(id, cls), instrument, name, is_band_member)
      [] cls = "SingerSongwriter" ->
            SingerSongwriter__init__(Blank(id, cls), vocals, instrument, name,
                                     is_band_member)

\* self.__dict__ == other.__dict__: the same attributes with equal values
DictEq(self, other) ==
    /\ self.name = other.name
    /\ self.is_band_member = other.is_band_member
    /\ self.vocals = other.vocals
    /\ self.instrument = other.instrument

\* Musician.__eq__
Musician__eq__(self, other) ==
    LET i == IsInstance(other, "Musician")
        n == IF i THEN self.name = other.name ELSE FALSE
        bm == IF i THEN self.is_band_member = other.is_band_member ELSE FALSE
    IN  i /\ n /\ bm

\* faulty variant: Singer leaves __eq__ to its superclass
Singer__eq__inherited(self, other) == Musician__eq__(self, other)

\* Singer.__eq__
Singer__eq__(self, other) ==
    IF IsInstance(other, "Singer") THEN DictEq(self, other) ELSE FALSE

\* Songwriter.__eq__
Songwriter__eq__(self, other) ==
    IF IsInstance(other, "Songwriter") THEN DictEq(self, other) ELSE FALSE

\* SingerSongwriter.__eq__
SingerSongwriter__eq__(self, other) ==
    IF IsInstance(other, "SingerSongwriter") THEN DictEq(self, other) ELSE FALSE

\* type(self).__eq__(self, other)
CallEq(self, other) ==
    CASE self.cls = "Musician" -> Musician__eq__(self, other)
      [] self.cls = "Singer" -> Singer__eq__(self, other)
      [] self.cls = "Songwriter" -> Songwriter__eq__(self, other)
      [] self.cls = "SingerSongwriter" -> SingerSongwriter__eq__(self, other)

\* a == b on two musician objects.  Python tries the right operand's __eq__
\* first when its class is a proper subclass of the left operand's class
\* (every subclass here overrides __eq__); no __eq__ here returns
\* NotImplemented, so the first call decides.
PyEq(a, b) ==
    IF b.cls # a.cls /\ IsInstance(b, a.cls) THEN CallEq(b, a) ELSE CallEq(a, b)

----------------------------------------------------------------------------
(* datetime.date, as band.py uses it *)

Date(y, m, d) == [tag |-> "date", year |-> y, month |-> m, day |-> d]
\* a datetime.datetime of that day: an instance of a subclass of date
DateTime(y, m, d) == [tag |-> "datetime", year |-> y, month |-> m, day |-> d]

\* isinstance(d, date)
IsDate(d) == d.tag \in {"date", "datetime"}

\* a <= b on two dates
DateLE(a, b) ==
    \/ a.year < b.year
    \/ a.year = b.year /\ a.month < b.month
    \/ a.year = b.year /\ a.month = b.month /\ a.day <= b.day

IsLeap(y) == (y % 4 = 0 /\ y % 100 # 0) \/ y % 400 = 0
DaysInMonth(y, m) ==
    IF m = 2 THEN (IF IsLeap(y) THEN 29 ELSE 28)
    ELSE IF m \in {4, 6, 9, 11} THEN 30 ELSE 31
\* the calendar day after d
NextDay(d) ==
    IF d.day < DaysInMonth(d.year, d.month) THEN [d EXCEPT !.day = d.day + 1]
    ELSE IF d.month < 12 THEN [d EXCEPT !.month = d.month + 1, !.day = 1]
    ELSE [d EXCEPT !.year = d.year + 1, !.month = 1, !.day = 1]

\* the day on which the script starts and class Band is defined, and the
\* k-th day after it
RECURSIVE Day(_)
Day(k) == IF k = 0 THEN Date(2023, 12, 31) ELSE NextDay(Day(k - 1))

----------------------------------------------------------------------------
(* band.py: class Band *)

NoBand == [cls |-> "<unbound>"]

\* hasattr(obj, attr)
HasAttr(obj, attr) == attr \in DOMAIN obj

\* faulty variant: a name of one character passes the check
Band__init__len1(name, members, start, end) ==
    LET band_name_error == ~IsStr(name) \/ Len(name.v) < 1
    IN  IF band_name_error
        THEN [out |-> "BandNameError", exc_name |-> name, obj |-> NoBand]
        ELSE [out |-> "ok",
              obj |-> [cls |-> "Band", name |-> name, members |-> members,
                       start |-> start, end |-> end, has_i |-> FALSE, i |-> 0]]

\* Band.__init__(self, name, *members, start, end), raising
\* BandNameError(name), whose __init__ keeps the name in self.name.
\* has_i tells whether the object has the attribute _Band__i (the counter is
\* not introduced in __init__: line 47 is commented out).
Band__init__(name, members, start, end) ==
    LET band_name_error == ~IsStr(name) \/ Len(name.v) < 2
    IN  IF band_name_error
        THEN [out |-> "BandNameError", exc_name |-> name, obj |-> NoBand]
        ELSE [out |-> "ok",
              obj |-> [cls |-> "Band", name |-> name, members |-> members,
                       start |-> start, end |-> end, has_i |-> FALSE, i |-> 0]]

\* the marker of a keyword argument the call leaves out
Omitted == [tag |-> "<omitted>"]

\* Band(name, *members, start=..., end=...): an omitted start or end takes
\* the default, which is date.today() as evaluated once, when the def
\* statement of __init__ ran
BandCall(name, members, start, end) ==
    Band__init__(name, members,
                 IF start = Omitted THEN def_today ELSE start,
                 IF end = Omitted THEN def_today ELSE end)

\* x in members: some item is x or item == x
In(x, members) ==
    \E k \in DOMAIN members : members[k].id = x.id \/ PyEq(members[k], x)

\* faulty variant: the members tuples are compared directly, in order
Band__eq__tuples(self, other) ==
    IF ~(HasAttr(other, "name") /\ HasAttr(other, "members")
         /\ HasAttr(other, "start") /\ HasAttr(other, "end"))
    THEN [out |-> "AttributeError"]
    ELSE LET t == other.cls = "Band"
             n == self.name = other.name
             m == /\ Len(self.members) = Len(other.members)
                  /\ \A k \in DOMAIN self.members :
                        \/ self.members[k].id = other.members[k].id
                        \/ PyEq(self.members[k], other.members[k])
             s == self.start.year = other.start.year
             e == self.end.year = other.end.year
         IN  [out |-> "ok", val |-> t /\ n /\ m /\ s /\ e]

\* faulty variant: the members are compared one way only
Band__eq__oneway(self, other) ==
    IF ~(HasAttr(other, "name") /\ HasAttr(other, "members")
         /\ HasAttr(other, "start") /\ HasAttr(other, "end"))
    THEN [out |-> "AttributeError"]
    ELSE LET t == other.cls = "Band"
             n == self.name = other.name
             m == \A k \in DOMAIN other.members : In(other.members[k], self.members)
             s == self.start.year = other.start.year
             e == self.end.year = other.end.year
         IN  [out |-> "ok", val |-> t /\ n /\ m /\ s /\ e]

\* Band.__eq__: other.name, other.members, other.start and other.end are
\* read whatever other is, so an object without them raises AttributeError
Band__eq__(self, other) ==
    IF ~(HasAttr(other, "name") /\ HasAttr(other, "members")
         /\ HasAttr(other, "start") /\ HasAttr(other, "end"))
    THEN [out |-> "AttributeError"]
    ELSE LET t == other.cls = "Band"
             n == self.name = other.name
             m == /\ \A k \in DOMAIN other.members : In(other.members[k], self.members)
                  /\ \A k \in DOMAIN self.members : In(self.members[k], other.members)
             s == self.start.year = other.start.year
             e == self.end.year = other.end.year
         IN  [out |-> "ok", val |-> t /\ n /\ m /\ s /\ e]

\* faulty variant: the lower bound is exclusive
is_date_valid_strict(d) ==
    IF IsDate(d)
    THEN IF d.tag = "datetime" THEN [out |-> "TypeError"]
         ELSE [out |-> "ok",
               val |-> ~DateLE(d, Date(1960, 1, 1)) /\ DateLE(d, today)]
    ELSE [out |-> "ok", val |-> FALSE]

\* Band.is_date_valid(d).  A datetime passes isinstance(d, date), and
\* comparing a date with a datetime raises TypeError.
is_date_valid(d) ==
    IF IsDate(d)
    THEN IF d.tag = "datetime" THEN [out |-> "TypeError"]
         ELSE [out |-> "ok",
               val |-> DateLE(Date(1960, 1, 1), d) /\ DateLE(d, today)]
    ELSE [out |-> "ok", val |-> FALSE]

\* faulty variant: the counter is introduced on the first call only
Band__iter__once(self) ==
    IF self.has_i THEN self ELSE [self EXCEPT !.has_i = TRUE, !.i = 0]

\* Band.__iter__: self.__i = 0; return self
Band__iter__(self) == [self EXCEPT !.has_i = TRUE, !.i = 0]

\* faulty variant: the counter is incremented before the member is read
Band__next__skip(self) ==
    IF ~self.has_i THEN [out |-> "AttributeError", obj |-> self]
    ELSE IF self.i <= Len(self.members)
    THEN IF self.i + 1 >= Len(self.members)
         THEN [out |-> "IndexError", obj |-> [self EXCEPT !.i = self.i + 1]]
         ELSE [out |-> "ok", val |-> self.members[self.i + 2],
               obj |-> [self EXCEPT !.i = self.i + 1]]
    ELSE [out |-> "StopIteration", obj |-> self]

\* faulty variant: the member returned is removed from the band
Band__next__consume(self) ==
    IF ~self.has_i THEN [out |-> "AttributeError", obj |-> self]
    ELSE IF self.members = <<>> THEN [out |-> "IndexError", obj |-> self]
    ELSE [out |-> "ok", val |-> Head(self.members),
          obj |-> [self EXCEPT !.members = Tail(self.members)]]

\* faulty variant: past the last member the counter wraps around to the first
Band__next__wrap(self) ==
    IF ~self.has_i THEN [out |-> "AttributeError", obj |-> self]
    ELSE IF self.members = <<>> THEN [out |-> "IndexError", obj |-> self]
    ELSE IF self.i >= Len(self.members)
    THEN [out |-> "ok", val |-> self.members[1], obj |-> [self EXCEPT !.i = 1]]
    ELSE [out |-> "ok", val |-> self.members[self.i + 1],
          obj |-> [self EXCEPT !.i = self.i + 1]]

\* Band.__next__.  Reading self.__i before __iter__ has set it raises
\* AttributeError; members[self.__i] with __i = len(members) raises
\* IndexError before the counter is incremented.  The tuple is indexed from
\* 0 and the sequence from 1.
Band__next__(self) ==
    IF ~self.has_i THEN [out |-> "AttributeError", obj |-> self]
    ELSE IF self.i <= Len(self.members)
    THEN IF self.i >= Len(self.members)
         THEN [out |-> "IndexError", obj |-> self]
         ELSE [out |-> "ok", val |-> self.members[self.i + 1],
               obj |-> [self EXCEPT !.i = self.i + 1]]
    ELSE [out |-> "StopIteration", obj |-> self]

----------------------------------------------------------------------------
(* The musician script: constructing musicians, assigning names, comparing *)

\* the variables of the script that hold musician objects
MusSlots == {1, 2}
NoObj == Blank(0, "<unbound>")

\* the values passed as vocals= and instrument=: an enumeration member, or
\* a value that is none
VocalsInputs == {LEAD_VOCALS, PyStr(<<"a">>)}
InstrumentInputs == {RHYTHM_GUITAR, PyStr(<<"a">>)}
VocalsArgs(cls) ==
    IF cls \in {"Singer", "SingerSongwriter"} THEN VocalsInputs ELSE {Absent}
InstrumentArgs(cls) ==
    IF cls \in {"Songwriter", "SingerSongwriter"} THEN InstrumentInputs ELSE {Absent}

\* the values the band script's variables hold while the musician script runs
NoRet == [op |-> "none"]
NoHist == [iters |-> 0, calls |-> 0, prev |-> "none"]

BandIdle ==
    /\ band = NoBand /\ band2 = NoBand /\ inp = <<>> /\ hist = NoHist
    /\ PersistIdle
    /\ today = Day(0) /\ def_today = today
BandUnchanged == UNCHANGED <<bands, file, loops, today, def_today, band, band2, inp, hist>>

MusInit == BandIdle /\ mus = [s \in MusSlots |-> NoObj] /\ ret = NoRet

\* <slot> = <cls>(name=..., is_band_member=..., vocals=..., instrument=...)
MusNew(s, cls, name, ibm, vocals, instrument) ==
    /\ mus' = [mus EXCEPT ![s] = New(s, cls, name, ibm, vocals, instrument)]
    /\ ret' = [op |-> "new", slot |-> s, arg |-> name]
    /\ BandUnchanged

\* <slot>.name = name
MusSetName(s, name) ==
    /\ mus[s] # NoObj
    /\ mus' = [mus EXCEPT ![s] = name_setter(mus[s], name)]
    /\ ret' = [op |-> "setname", slot |-> s, arg |-> name]
    /\ BandUnchanged

\* <slot a> == <slot b>
MusCompare(a, b) ==
    /\ mus[a] # NoObj /\ mus[b] # NoObj
    /\ ret' = [op |-> "eq", slot |-> a, rhs |-> b, val |-> PyEq(mus[a], mus[b])]
    /\ UNCHANGED mus
    /\ BandUnchanged

MusConstruct ==
    \E s \in MusSlots, cls \in MusicianClasses, name \in NameInputs,
       ibm \in {PyTrue, PyFalse} :
        \E vocals \in VocalsArgs(cls), instrument \in InstrumentArgs(cls) :
            MusNew(s, cls, name, ibm, vocals, instrument)
MusAssignName == \E s \in MusSlots, name \in NameInputs : MusSetName(s, name)
MusEquals == \E a, b \in MusSlots : MusCompare(a, b)

MusNext == MusConstruct \/ MusAssignName \/ MusEquals

SpecMus == MusInit /\ [][MusNext]_vars

----------------------------------------------------------------------------
(* musician.py: display strings and parsing *)

\* the truth value of x in a condition
Truthy(x) ==
    CASE x.tag = "bool" -> x = PyTrue
      [] x.tag = "NoneType" -> FALSE
      [] x.tag = "str" -> x.v # <<>>
      [] OTHER -> TRUE

\* faulty variant: every musician is shown as a band member
Musician__str__member(self) ==
    self.name.v \o <<" ">> \o <<"(", "b", "a", "n", "d", " ", "m", "e", "m", "b", "e", "r", ")">>

\* Musician.__str__: f'{self.name} {b}'
Musician__str__(self) ==
    LET b == IF Truthy(self.is_band_member)
             THEN <<"(", "b", "a", "n", "d", " ", "m", "e", "m", "b", "e", "r", ")">>
             ELSE <<"(", "s", "o", "l", "o", " ", "m", "u", "s", "i", "c", "i", "a", "n", ")">>
    IN  self.name.v \o <<" ">> \o b

\* Songwriter.__str__: super().__str__() is Musician.__str__ for both
\* Songwriter and SingerSongwriter objects
Songwriter__str__(self) ==
    LET i == IF IsInstrument(self.instrument)
             THEN <<",", " ">> \o self.instrument.v
             ELSE <<>>
    IN  Musician__str__(self) \o i

\* Singer.__str__: super().__str__() is the next class in the MRO of self:
\* Songwriter for a SingerSongwriter, else Musician
Singer__str__(self) ==
    LET v == IF IsVocals(self.vocals) THEN <<",", " ">> \o self.vocals.v ELSE <<>>
        base == IF self.cls = "SingerSongwriter"
                THEN Songwriter__str__(self)
                ELSE Musician__str__(self)
    IN  base \o v

\* SingerSongwriter.__str__: return super().__str__()
SingerSongwriter__str__(self) == Singer__str__(self)

\* str(obj), by the class of obj
Str(obj) ==
    CASE obj.cls = "Musician" -> Musician__str__(obj)
      [] obj.cls = "Singer" -> Singer__str__(obj)
      [] obj.cls = "Songwriter" -> Songwriter__str__(obj)
      [] obj.cls = "SingerSongwriter" -> SingerSongwriter__str__(obj)

\* s.startswith(p)
StartsWith(s, p) == Len(s) >= Len(p) /\ SubSeq(s, 1, Len(p)) = p

\* s.find(sep) + 1: the position of the first occurrence of sep, 0 if none
Find(s, sep) ==
    LET hits == {i \in 1..(Len(s) - Len(sep) + 1) :
                    SubSeq(s, i, i + Len(sep) - 1) = sep}
    IN  IF hits = {} THEN 0
        ELSE CHOOSE i \in hits : \A j \in hits : i <= j

\* s.split(sep): the pieces between the occurrences of sep, left to right
RECURSIVE Split(_, _)
Split(s, sep) ==
    LET i == Find(s, sep)
    IN  IF i = 0 THEN <<s>>
        ELSE <<SubSeq(s, 1, i - 1)>>
                \o Split(SubSeq(s, i + Len(sep), Len(s)), sep)

\* Musician.from_str(musician_string), called on class cls: cls(n, bm).
\* Indexing the split at 1 raises IndexError when there is no ' ('; the
\* subclasses take one positional argument only.
from_str(id, cls, musician_string) ==
    LET parts == Split(musician_string, <<" ", "(">>)
    IN  IF Len(parts) < 2 THEN [out |-> "IndexError", obj |-> NoObj]
        ELSE IF cls # "Musician" THEN [out |-> "TypeError", obj |-> NoObj]
        ELSE LET n == parts[1]
                 bm == IF StartsWith(parts[2], <<"b">>) THEN PyTrue ELSE PyFalse
             IN  [out |-> "ok",
                  obj |-> New(id, cls, PyStr(n), bm, Absent, Absent)]

----------------------------------------------------------------------------
(* band.py: the display string *)

\* str(n) for an integer n >= 0: its decimal digits
RECURSIVE IntStr(_)
IntStr(n) ==
    LET digit == <<"0", "1", "2", "3", "4", "5", "6", "7", "8", "9">>[(n % 10) + 1]
    IN  IF n < 10 THEN <<digit>> ELSE IntStr(n \div 10) \o <<digit>>

\* sep.join(strs)
RECURSIVE Join(_, _)
Join(sep, strs) ==
    IF strs = <<>> THEN <<>>
    ELSE IF Len(strs) = 1 THEN strs[1]
    ELSE strs[1] \o sep \o Join(sep, Tail(strs))

\* faulty variant: the members are listed last to first
Band__str__backwards(self) ==
    LET n == self.name.v \o (IF self.members # <<>> THEN <<":", " ">> ELSE <<" ">>)
        k == Len(self.members)
        m == Join(<<",", " ">>, [j \in 1..k |-> Str(self.members[k + 1 - j])])
    IN  n \o m \o <<" ", "(">> \o IntStr(self.start.year) \o <<"-">>
            \o IntStr(self.end.year) \o <<")">>

\* Band.__str__: f'{n}{m} ({s}-{e})'
Band__str__(self) ==
    LET n == self.name.v \o (IF self.members # <<>> THEN <<":", " ">> ELSE <<" ">>)
        m == IF self.members # <<>>
             THEN Join(<<",", " ">>, [j \in DOMAIN self.members |-> Str(self.members[j])])
             ELSE <<>>
        s == IntStr(self.start.year)
        e == IntStr(self.end.year)
    IN  n \o m \o <<" ", "(">> \o s \o <<"-">> \o e \o <<")">>

----------------------------------------------------------------------------
(* musician.py: playing *)

\* the keyword rhythm_count
RhythmCount == <<"r", "h", "y", "t", "h", "m", "_", "c", "o", "u", "n", "t">>

\* kwargs is the sequence of the keyword arguments of the call, in the
\* order they were written, each a key and a value; the keys are distinct
HasKey(kwargs, key) == \E k \in DOMAIN kwargs : kwargs[k].key = key
\* kwargs[key]
Lookup(kwargs, key) ==
    kwargs[CHOOSE k \in DOMAIN kwargs : kwargs[k].key = key].value
\* list(kwargs.values())
Values(kwargs) == [k \in DOMAIN kwargs |-> kwargs[k].value]
\* s[1:]
From1(s) == IF s = <<>> THEN <<>> ELSE Tail(s)

\* Musician.play: f'{n} playing {s}: {r} ...playing... {g} {m}'
Musician__play(self, song_title, args, kwargs) ==
    LET n == self.name.v
        s == <<"\"">> \o song_title \o <<"\"">>
        r == IF HasKey(kwargs, RhythmCount) THEN Lookup(kwargs, RhythmCount)
             ELSE <<>>
        g == IF args # <<>> THEN Join(<<" ">>, args) ELSE <<>>
        m == IF From1(Values(kwargs)) # <<>>
             THEN Join(<<" ">>, From1(Values(kwargs)))
             ELSE <<>>
    IN  n \o <<" ", "p", "l", "a", "y", "i", "n", "g", " ">> \o s \o <<":", " ">> \o r \o <<" ", ".", ".", ".", "p", "l", "a", "y", "i", "n", "g", ".", ".", ".", " ">>
            \o g \o <<" ">> \o m

\* faulty variant: Singer leaves play to its superclass
Singer__play_inherited(self, song_title, args, kwargs) ==
    Musician__play(self, song_title, args, kwargs)

\* Singer.play: super().play(song_title, *args, **kwargs) + '\nYeah!'.
\* Songwriter defines no play, so super().play is Musician.play for a
\* SingerSongwriter too.
Singer__play(self, song_title, args, kwargs) ==
    Musician__play(self, song_title, args, kwargs) \o <<"\n", "Y", "e", "a", "h", "!">>

\* obj.play(song_title, *args, **kwargs): the first play in the MRO of obj
Play(obj, song_title, args, kwargs) ==
    IF IsInstance(obj, "Singer")
    THEN Singer__play(obj, song_title, args, kwargs)
    ELSE Musician__play(obj, song_title, args, kwargs)

\* Musician.play_song: return self.play(song_title, *args, **kwargs)
play_song(self, song_title, args, kwargs) ==
    Play(self, song_title, args, kwargs)

----------------------------------------------------------------------------
(* Serialization: the JSON functions and pickle *)

\* band_py_to_json, band_json_to_py, musician_py_to_json,
\* musician_json_to_py, date_py_to_json, date_json_to_py: each body is a
\* docstring only, so each call returns None
band_py_to_json(b) == PyNone
band_json_to_py(band_json) == PyNone
musician_py_to_json(musician) == PyNone
musician_json_to_py(musician_json) == PyNone
date_py_to_json(a_date) == PyNone
date_json_to_py(iso_date) == PyNone

\* a == b where a is a musician and b is any value: the __eq__ of a's class
\* answers False for a value that is no musician
MusicianPyEq(a, b) == IF HasAttr(b, "cls") THEN PyEq(a, b) ELSE FALSE

\* what pickle writes for a musician: its class, its __dict__ (the name
\* under the mangled key _Musician__name) and the memo key of the object
PickleMusician(m) ==
    [cls |-> m.cls, memo |-> m.id,
     state |-> [_Musician__name |-> m.name, is_band_member |-> m.is_band_member,
                vocals |-> m.vocals, instrument |-> m.instrument]]

\* what pickle writes for a Band: its class and its __dict__, with the
\* counter _Band__i when the object has one
PickleBand(b) ==
    [cls |-> b.cls,
     state |-> [name |-> b.name,
                members |-> [j \in DOMAIN b.members |-> PickleMusician(b.members[j])],
                start |-> b.start, end |-> b.end,
                has_i |-> b.has_i, _Band__i |-> b.i]]

\* pickle.dump(bands, f): the list, item by item
pickle_dump(bs) == [k \in DOMAIN bs |-> PickleBand(bs[k])]

\* the musician pickle.load rebuilds: a new object of the class (its
\* identity is the saved one's plus 100), its __dict__ set from the saved
\* state, no __init__ called; one saved object is one loaded object
UnpickleMusician(p) ==
    [id |-> p.memo + 100, cls |-> p.cls, name |-> p.state._Musician__name,
     is_band_member |-> p.state.is_band_member,
     vocals |-> p.state.vocals, instrument |-> p.state.instrument]

\* the Band pickle.load rebuilds
UnpickleBand(p) ==
    [cls |-> p.cls, name |-> p.state.name,
     members |-> [j \in DOMAIN p.state.members |-> UnpickleMusician(p.state.members[j])],
     start |-> p.state.start, end |-> p.state.end,
     has_i |-> p.state.has_i, i |-> p.state._Band__i]

\* faulty variant: only the first saved band is read back
pickle_load_first(data) ==
    [k \in DOMAIN data \cap {1} |-> UnpickleBand(data[k])]

\* pickle.load(f)
pickle_load(data) == [k \in DOMAIN data |-> UnpickleBand(data[k])]

\* a == b on two lists of Bands: the same length and every pair of items
\* the same object or equal under Band.__eq__, tried left to right
ListEq(a, b) ==
    IF Len(a) # Len(b) THEN [out |-> "ok", val |-> FALSE]
    ELSE IF \E k \in DOMAIN a : a[k] # b[k] /\ Band__eq__(a[k], b[k]).out # "ok"
    THEN [out |-> "AttributeError"]
    ELSE [out |-> "ok",
          val |-> \A k \in DOMAIN a : a[k] = b[k] \/ Band__eq__(a[k], b[k]).val]

----------------------------------------------------------------------------
(* The band script: test data *)

\* the musicians the bands are built from: a Musician, a second Musician
\* object equal to the first, and a Singer of the same name and flag
johnLennon == New(1, "Musician", PyStr(<<"J", "L">>), PyTrue, Absent, Absent)
johnLennonAgain == New(2, "Musician", PyStr(<<"J", "L">>), PyTrue, Absent, Absent)
johnLennonSinger == New(3, "Singer", PyStr(<<"J", "L">>), PyTrue, LEAD_VOCALS, Absent)
Roster == {johnLennon, johnLennonAgain, johnLennonSinger}

\* the tuples of at most MaxMembers members drawn from R
MemberSeqs(R) == UNION {[1..n -> R] : n \in 0..MaxMembers}

\* the values passed as a band's name
BandNameInputs ==
    {PyStr(Rep(n)) : n \in 0..MaxBandNameLen}
        \cup {PyStr(<<"T", "B">>), PyInt7, PyNone}

\* the (start, end) pairs passed to the constructor: a base pair, one with
\* the same years and other days, one with another start year and one with
\* another end year
DateArgs ==
    {<<Date(1962, 10, 5), Date(1970, 4, 11)>>,
     <<Date(1962, 1, 1), Date(1970, 4, 10)>>,
     <<Date(1957, 7, 6), Date(1970, 4, 11)>>,
     <<Date(1962, 10, 5), Date(1971, 1, 1)>>}

MusIdle == mus = [s \in MusSlots |-> NoObj]

----------------------------------------------------------------------------
(* The band script: constructing bands and validating dates *)

CtorInit ==
    /\ PersistIdle
    /\ today = Day(0) /\ def_today = today
    /\ band = NoBand /\ band2 = NoBand /\ inp = <<>> /\ hist = NoHist
    /\ MusIdle /\ ret = NoRet

\* midnight passes
Tick ==
    /\ \E k \in 0..(MaxTicks - 1) : today = Day(k)
    /\ today' = NextDay(today)
    /\ UNCHANGED <<bands, file, loops, def_today, mus, band, band2, inp, hist, ret>>

\* band = Band(name, *members, start=start, end=end); when the constructor
\* raises, the variable keeps what it held.  ret keeps the day of the call
\* and whether start= and end= were left out.
BandConstruct(name, members, start, end) ==
    LET r == BandCall(name, members, start, end)
    IN  /\ band' = IF r.out = "ok" THEN r.obj ELSE band
        /\ hist' = IF r.out = "ok" THEN NoHist ELSE hist
        /\ ret' = IF r.out = "ok"
                  THEN [op |-> "Band", out |-> r.out, arg |-> name,
                        n_members |-> Len(members), val |-> r.obj,
                        at |-> today,
                        defaults |-> (start = Omitted /\ end = Omitted)]
                  ELSE [op |-> "Band", out |-> r.out, arg |-> name,
                        n_members |-> Len(members), val |-> r.obj,
                        exc_name |-> r.exc_name]
        /\ UNCHANGED <<bands, file, loops, today, def_today, mus, band2, inp>>

\* Band.is_date_valid(d)
BandIsDateValid(d) ==
    LET r == is_date_valid(d)
    IN  /\ ret' = IF r.out = "ok"
                  THEN [op |-> "is_date_valid", out |-> r.out, arg |-> d,
                        at |-> today, val |-> r.val]
                  ELSE [op |-> "is_date_valid", out |-> r.out, arg |-> d,
                        at |-> today]
        /\ UNCHANGED <<bands, file, loops, today, def_today, mus, band, band2, inp, hist>>

\* the (start, end) pairs and the members passed in this script
CtorDateArgs ==
    {<<Date(1962, 10, 5), Date(1970, 4, 11)>>, <<Date(1957, 7, 6), Date(1970, 4, 10)>>}
CtorMemberInputs == MemberSeqs({johnLennon, johnLennonSinger})

\* the values passed to is_date_valid: the days around the lower bound, a
\* day in between, today and tomorrow, a datetime, and values that are no
\* dates
DateInputs ==
    {Date(1959, 12, 31), Date(1960, 1, 1), Date(1962, 10, 5), today,
     NextDay(today), DateTime(1962, 10, 5), PyStr(<<"1", "9", "6", "2">>), PyNone}

CtorConstruct ==
    \E name \in BandNameInputs, members \in CtorMemberInputs :
        \/ \E se \in CtorDateArgs : BandConstruct(name, members, se[1], se[2])
        \/ BandConstruct(name, members, Omitted, Omitted)
CtorIsDateValid == \E d \in DateInputs : BandIsDateValid(d)

CtorNext == Tick \/ CtorConstruct \/ CtorIsDateValid

SpecCtor == CtorInit /\ [][CtorNext]_vars

----------------------------------------------------------------------------
(* The band script: iterating over a band *)

Min(a, b) == IF a < b THEN a ELSE b

\* the band the_beatles, with any members
IterInit ==
    /\ PersistIdle
    /\ today = Day(0) /\ def_today = today
    /\ \E members \in MemberSeqs(Roster) :
            band = BandCall(PyStr(<<"T", "B">>), members,
                            Date(1962, 10, 5), Date(1970, 4, 11)).obj
    /\ band2 = NoBand /\ inp = <<>> /\ hist = NoHist
    /\ MusIdle /\ ret = NoRet

\* how the iteration in progress stands when iter() is called again
IterationState ==
    IF hist.iters = 0 THEN "none"
    ELSE IF ret.op = "next" /\ ret.out # "ok" THEN "exhausted"
    ELSE IF hist.calls < Len(band.members) THEN "abandoned"
    ELSE "complete"

\* iter(band)
BandIter ==
    /\ band' = Band__iter__(band)
    /\ hist' = [iters |-> Min(hist.iters + 1, MaxIters), calls |-> 0,
                prev |-> IterationState]
    /\ ret' = [op |-> "iter", out |-> "ok"]
    /\ UNCHANGED <<bands, file, loops, today, def_today, mus, band2, inp>>

\* next(band); hist.calls counts the calls since the last iter(band), up to
\* two past the number of members
BandNext ==
    LET r == Band__next__(band)
    IN  /\ band' = r.obj
        /\ hist' = [hist EXCEPT
                       !.calls = Min(hist.calls + 1, Len(band.members) + 2)]
        /\ ret' = IF r.out = "ok"
                  THEN [op |-> "next", out |-> r.out, val |-> r.val]
                  ELSE [op |-> "next", out |-> r.out]
        /\ UNCHANGED <<bands, file, loops, today, def_today, mus, band2, inp>>

IterNext == BandIter \/ BandNext

SpecIter == IterInit /\ [][IterNext]_vars

----------------------------------------------------------------------------
(* The band script: comparing two bands *)

\* the valid names the compared bands are given
EqNameInputs == {PyStr(<<"T", "B">>), PyStr(<<"T", "R", "S">>)}

EqArgs ==
    {[name |-> name, members |-> members, start |-> se[1], end |-> se[2]] :
        name \in EqNameInputs, members \in MemberSeqs(Roster), se \in DateArgs}

\* two bands constructed from any two argument lists
EqInit ==
    /\ PersistIdle
    /\ today = Day(0) /\ def_today = today
    /\ inp \in EqArgs \X EqArgs
    /\ band = BandCall(inp[1].name, inp[1].members, inp[1].start, inp[1].end).obj
    /\ band2 = BandCall(inp[2].name, inp[2].members, inp[2].start, inp[2].end).obj
    /\ hist = NoHist /\ MusIdle /\ ret = NoRet

\* band == band2
BandCompare ==
    LET r == Band__eq__(band, band2)
    IN  /\ ret' = IF r.out = "ok"
                  THEN [op |-> "eq", out |-> r.out, val |-> r.val]
                  ELSE [op |-> "eq", out |-> r.out]
        /\ UNCHANGED <<bands, file, loops, today, def_today, mus, band, band2, inp, hist>>

EqNext == BandCompare

SpecEq == EqInit /\ [][EqNext]_vars

----------------------------------------------------------------------------
(* The musician script: printing musicians and parsing them back *)

\* the names of the musicians printed: the names of the script, a name of
\* the test data and names that contain ' ('
georgeHarrisonName == PyStr(<<"G", "e", "o", "r", "g", "e", " ", "H", "a", "r", "r", "i", "s", "o", "n">>)
StrNameInputs ==
    NameInputs \cup {georgeHarrisonName, PyStr(<<"a", " ", "(", "b">>), PyStr(<<"b", " ", "(", "s">>)}

\* the strings parsed that no __str__ produced
OtherStrInputs ==
    {<<>>, <<"a">>, <<"a", " ", "(", "x", ")">>, <<"a", " ", "(", "b", "a", "n", "d", " ", "m", "e", "m", "b", "e", "r">>, <<"a", "(", "b", "a", "n", "d", " ", "m", "e", "m", "b", "e", "r", ")">>,
     <<"a", " ", "(", "s", "o", "l", "o", " ", "m", "u", "s", "i", "c", "i", "a", "n", ")", ",", " ", "b", "a", "s", "s">>}

\* print(<slot 1>)
StrShow ==
    /\ mus[1] # NoObj
    /\ ret' = [op |-> "str", slot |-> 1, val |-> PyStr(Str(mus[1]))]
    /\ UNCHANGED mus
    /\ BandUnchanged

\* <slot 2> = Musician.from_str(musician_string); when the call raises, the
\* variable keeps what it held
StrParse(musician_string) ==
    LET r == from_str(2, "Musician", musician_string)
    IN  /\ mus' = IF r.out = "ok" THEN [mus EXCEPT ![2] = r.obj] ELSE mus
        /\ ret' = [op |-> "from_str", arg |-> musician_string, out |-> r.out,
                   val |-> r.obj]
        /\ BandUnchanged

\* <slot 1> == Musician.from_str(str(<slot 1>))
StrRoundTrip ==
    /\ mus[1] # NoObj
    /\ LET r == from_str(2, "Musician", Str(mus[1]))
       IN  /\ mus' = IF r.out = "ok" THEN [mus EXCEPT ![2] = r.obj] ELSE mus
           /\ ret' = [op |-> "round trip", out |-> r.out,
                      val |-> IF r.out = "ok" THEN PyEq(mus[1], r.obj)
                              ELSE FALSE]
           /\ BandUnchanged

StrConstruct ==
    \E cls \in MusicianClasses, name \in StrNameInputs,
       ibm \in {PyTrue, PyFalse} :
        \E vocals \in VocalsArgs(cls), instrument \in InstrumentArgs(cls) :
            MusNew(1, cls, name, ibm, vocals, instrument)
StrParseOther == \E s \in OtherStrInputs : StrParse(s)

StrNext == StrConstruct \/ StrShow \/ StrParseOther \/ StrRoundTrip

SpecStr == MusInit /\ [][StrNext]_vars

----------------------------------------------------------------------------
(* The band script: printing bands *)

\* the musicians of the printed bands
johnLennonFull == New(1, "Musician", PyStr(<<"J", "o", "h", "n", " ", "L", "e", "n", "n", "o", "n">>), PyTrue, Absent, Absent)
paulMcCartney == New(4, "Musician", PyStr(<<"P", "a", "u", "l", " ", "M", "c", "C", "a", "r", "t", "n", "e", "y">>), PyTrue, Absent, Absent)
ShowRoster == {johnLennonFull, paulMcCartney, johnLennonSinger}

\* the names of the printed bands
ShowNameInputs ==
    {PyStr(<<"T", "h", "e", " ", "B", "e", "a", "t", "l", "e", "s">>), PyStr(<<"T", "B">>),
     PyStr(<<"a", " ">>)}

\* the_beatles = Band(...)
ShowInit ==
    /\ today = Day(0) /\ def_today = today
    /\ inp \in ShowNameInputs \X MemberSeqs(ShowRoster) \X DateArgs
    /\ band = BandCall(inp[1], inp[2], inp[3][1], inp[3][2]).obj
    /\ band2 = NoBand /\ hist = NoHist /\ PersistIdle
    /\ MusIdle /\ ret = NoRet

\* print(the_beatles)
BandShow ==
    /\ ret' = [op |-> "str", val |-> PyStr(Band__str__(band))]
    /\ UNCHANGED <<bands, file, loops, today, def_today, mus, band, band2, inp, hist>>

SpecShow == ShowInit /\ [][BandShow]_vars

----------------------------------------------------------------------------
(* The band script: saving and loading bands *)

\* the bands put in the list: without members, with one and with two
SavedBandInputs ==
    {BandCall(PyStr(<<"T", "B">>), ms, d[1], d[2]).obj :
        ms \in {<<>>, <<johnLennon>>, <<johnLennonSinger, johnLennon>>},
        d \in CtorDateArgs}

\* bands = [theBeatles, theRollingStones, pinkFloyd]
PersistInit ==
    /\ today = Day(0) /\ def_today = today
    /\ bands \in UNION {[1..n -> SavedBandInputs] : n \in 0..MaxBands}
    /\ file = NoFile /\ loops = NoLoops
    /\ band = NoBand /\ band2 = NoBand /\ inp = <<>> /\ hist = NoHist
    /\ MusIdle /\ ret = NoRet

\* with open(file, 'wb') as f: pickle.dump(bands, f)
PickleDump ==
    /\ file' = [written |-> TRUE, data |-> pickle_dump(bands)]
    /\ ret' = [op |-> "dump"]
    /\ UNCHANGED <<bands, loops, today, def_today, mus, band, band2, inp, hist>>

\* with open(file, 'rb') as f: bands1 = pickle.load(f); bands == bands1
PickleLoad ==
    /\ file.written
    /\ LET bands1 == pickle_load(file.data)
       IN  ret' = [op |-> "load", bands1 |-> bands1, eq |-> ListEq(bands, bands1)]
    /\ UNCHANGED <<bands, file, loops, today, def_today, mus, band, band2, inp, hist>>

\* bands[k] == band_json_to_py(band_py_to_json(bands[k]))
JsonBand ==
    \E k \in DOMAIN bands :
        LET decoded == band_json_to_py(band_py_to_json(bands[k]))
        IN  /\ ret' = [op |-> "json", of |-> "band", decoded |-> decoded,
                       eq |-> Band__eq__(bands[k], decoded)]
            /\ UNCHANGED <<bands, file, loops, today, def_today, mus, band,
                           band2, inp, hist>>

\* m == musician_json_to_py(musician_py_to_json(m)) for a member m
JsonMusician ==
    \E k \in DOMAIN bands : \E j \in DOMAIN bands[k].members :
        LET m == bands[k].members[j]
            decoded == musician_json_to_py(musician_py_to_json(m))
        IN  /\ ret' = [op |-> "json", of |-> "musician", decoded |-> decoded,
                       eq |-> [out |-> "ok", val |-> MusicianPyEq(m, decoded)]]
            /\ UNCHANGED <<bands, file, loops, today, def_today, mus, band,
                           band2, inp, hist>>

\* d == date_json_to_py(date_py_to_json(d)) for a start date d
JsonDate ==
    \E k \in DOMAIN bands :
        LET d == bands[k].start
            decoded == date_json_to_py(date_py_to_json(d))
        IN  /\ ret' = [op |-> "json", of |-> "date", decoded |-> decoded,
                       eq |-> [out |-> "ok", val |-> d = decoded]]
            /\ UNCHANGED <<bands, file, loops, today, def_today, mus, band,
                           band2, inp, hist>>

PersistNext == PickleDump \/ PickleLoad \/ JsonBand \/ JsonMusician \/ JsonDate

SpecPersist == PersistInit /\ [][PersistNext]_vars

----------------------------------------------------------------------------
(* The musician script: playing *)

\* the song title, the rhythm count and the expressions of gratitude of
\* the calls, each one capital letter; the messages are the capital letters
\* A, B, ... under the keys m1, m2, ...
SongTitle == <<"S">>
RhythmValue == <<"R">>
GratitudeInputs == {<<"T">>, <<"U">>}
Letter(k) == <<<<"A", "B", "C", "D", "E", "F">>[k]>>
MessageKey(k) == <<"m">> \o IntStr(k)

\* the keyword arguments a call can carry
KeywordInputs ==
    {[key |-> RhythmCount, value |-> RhythmValue]}
        \cup {[key |-> MessageKey(k), value |-> Letter(k)] : k \in 1..MaxMessages}

\* every way of writing some of them in some order
KwargsInputs ==
    {kw \in UNION {[1..n -> KeywordInputs] : n \in 0..(MaxMessages + 1)} :
        \A i, j \in DOMAIN kw : i # j => kw[i].key # kw[j].key}

\* *args: up to MaxGratitude expressions of gratitude
ArgsInputs == UNION {[1..n -> GratitudeInputs] : n \in 0..MaxGratitude}

\* george = Musician(...) / Singer(...) / Songwriter(...) / ..., and the
\* arguments of the calls the script makes on it
PlayInit ==
    /\ band = NoBand /\ band2 = NoBand /\ hist = NoHist /\ PersistIdle
    /\ today = Day(0) /\ def_today = today
    /\ inp \in ArgsInputs \X KwargsInputs
    /\ \E cls \in MusicianClasses, name \in NameInputs :
        mus = [s \in MusSlots |->
                IF s = 1
                THEN New(1, cls, name, PyTrue,
                         IF cls \in {"Singer", "SingerSongwriter"}
                         THEN LEAD_VOCALS ELSE Absent,
                         IF cls \in {"Songwriter", "SingerSongwriter"}
                         THEN RHYTHM_GUITAR ELSE Absent)
                ELSE NoObj]
    /\ ret = NoRet

\* george.play(song_title, *args, **kwargs)
MusPlay(args, kwargs) ==
    /\ ret' = [op |-> "play", args |-> args, kwargs |-> kwargs,
               val |-> Play(mus[1], SongTitle, args, kwargs)]
    /\ UNCHANGED mus
    /\ BandUnchanged

\* george.play_song(song_title, *args, **kwargs)
MusPlaySong(args, kwargs) ==
    /\ ret' = [op |-> "play_song", args |-> args, kwargs |-> kwargs,
               val |-> play_song(mus[1], SongTitle, args, kwargs)]
    /\ UNCHANGED mus
    /\ BandUnchanged

PlayNext == MusPlay(inp[1], inp[2]) \/ MusPlaySong(inp[1], inp[2])

SpecPlay == PlayInit /\ [][PlayNext]_vars

----------------------------------------------------------------------------
(* The band script: two for loops over one band, one inside the other *)

\*   for a in band:
\*       for b in band:
\*           <body: the pair (a, b) is visited>     (the body may break)
\* loops.pc is the statement the program is at, loops.a the position of the
\* member the outer loop holds, outer_got and inner_got the number of members
\* each loop has been given (the inner one since it last started), pairs the
\* pairs of positions the body has visited, broke whether a break was taken
NestedInit ==
    /\ today = Day(0) /\ def_today = today
    /\ \E members \in MemberSeqs(Roster) :
            band = BandCall(PyStr(<<"T", "B">>), members,
                            Date(1962, 10, 5), Date(1970, 4, 11)).obj
    /\ band2 = NoBand /\ inp = <<>> /\ hist = NoHist
    /\ bands = <<>> /\ file = NoFile
    /\ loops = [pc |-> "outer_iter", a |-> 0, outer_got |-> 0, inner_got |-> 0,
                pairs |-> {}, broke |-> FALSE]
    /\ MusIdle /\ ret = NoRet

NestedUnchanged == UNCHANGED <<bands, file, today, def_today, mus, band2, inp, hist, ret>>

\* the outer for statement starts: iter(band)
OuterIter ==
    /\ loops.pc = "outer_iter"
    /\ band' = Band__iter__(band)
    /\ loops' = [loops EXCEPT !.pc = "outer_next"]
    /\ NestedUnchanged

\* the outer for statement asks for its next member: next(band); an
\* exception other than StopIteration leaves both loops
OuterNext ==
    /\ loops.pc = "outer_next"
    /\ LET r == Band__next__(band)
       IN  /\ band' = r.obj
           /\ loops' = IF r.out = "ok"
                       THEN [loops EXCEPT !.pc = "inner_iter", !.a = band.i + 1,
                                          !.outer_got = loops.outer_got + 1]
                       ELSE IF r.out = "StopIteration"
                       THEN [loops EXCEPT !.pc = "done"]
                       ELSE [loops EXCEPT !.pc = "raised"]
    /\ NestedUnchanged

\* the inner for statement starts: iter(band)
InnerIter ==
    /\ loops.pc = "inner_iter"
    /\ band' = Band__iter__(band)
    /\ loops' = [loops EXCEPT !.pc = "inner_next", !.inner_got = 0]
    /\ NestedUnchanged

\* the inner for statement asks for its next member and the body runs
InnerNext ==
    /\ loops.pc = "inner_next"
    /\ LET r == Band__next__(band)
       IN  /\ band' = r.obj
           /\ loops' = IF r.out = "ok"
                       THEN [loops EXCEPT !.inner_got = loops.inner_got + 1,
                                          !.pairs = loops.pairs
                                                \cup {<<loops.a, band.i + 1>>}]
                       ELSE IF r.out = "StopIteration"
                       THEN [loops EXCEPT !.pc = "outer_next"]
                       ELSE [loops EXCEPT !.pc = "raised"]
    /\ NestedUnchanged

\* the body breaks out of the inner loop
InnerBreak ==
    /\ loops.pc = "inner_next" /\ loops.inner_got >= 1
    /\ loops.outer_got < MaxRounds
    /\ loops' = [loops EXCEPT !.pc = "outer_next", !.broke = TRUE]
    /\ UNCHANGED band
    /\ NestedUnchanged

NestedNext == OuterIter \/ OuterNext \/ InnerIter \/ InnerNext \/ InnerBreak

SpecNested == NestedInit /\ [][NestedNext]_vars

----------------------------------------------------------------------------
(* The band script: constructing bands and assigning their names *)

\* band.name = name: Band defines no property, so the attribute is stored
\* as given
BandAssignName ==
    \E name \in BandNameInputs :
        /\ band # NoBand
        /\ band' = [band EXCEPT !.name = name]
        /\ ret' = [op |-> "setname", arg |-> name]
        /\ UNCHANGED <<bands, file, loops, today, def_today, mus, band2, inp, hist>>

RenameNext == CtorConstruct \/ BandAssignName

SpecRename == CtorInit /\ [][RenameNext]_vars

----------------------------------------------------------------------------
(* The band script: one band under every call that does not assign to it *)

\* the band the_beatles with any members, and a second band that is either
\* built from the same arguments or has other years and no members
FrameInit ==
    /\ PersistIdle
    /\ today = Day(0) /\ def_today = today
    /\ \E members \in MemberSeqs(Roster) :
        /\ band = BandCall(PyStr(<<"T", "B">>), members,
                           Date(1962, 10, 5), Date(1970, 4, 11)).obj
        /\ band2 \in {BandCall(PyStr(<<"T", "B">>), members,
                               Date(1962, 10, 5), Date(1970, 4, 11)).obj,
                      BandCall(PyStr(<<"T", "B">>), <<>>,
                               Date(1957, 7, 6), Date(1970, 4, 10)).obj}
    /\ inp = <<>> /\ hist = NoHist
    /\ MusIdle /\ ret = NoRet

\* Band.is_date_valid(date(1962, 10, 5)), Band.is_date_valid(None)
FrameIsDateValid == \E d \in {Date(1962, 10, 5), PyNone} : BandIsDateValid(d)

\* the values that are no Bands a band is compared with: a number, a
\* string, None and a Musician
NonBandInputs == {PyInt7, PyStr(<<"T", "B">>), PyNone, johnLennon}

\* band == x for a value x that is no Band: Band.__eq__(band, x)
BandCompareOther ==
    \E x \in NonBandInputs :
        LET r == Band__eq__(band, x)
        IN  /\ ret' = IF r.out = "ok"
                      THEN [op |-> "eq other", rhs |-> x, out |-> r.out, val |-> r.val]
                      ELSE [op |-> "eq other", rhs |-> x, out |-> r.out]
            /\ UNCHANGED <<bands, file, loops, today, def_today, mus, band,
                           band2, inp, hist>>

FrameNext ==
    \/ BandIter \/ BandNext \/ BandShow \/ BandCompare \/ FrameIsDateValid
    \/ BandCompareOther

SpecFrame == FrameInit /\ [][FrameNext]_vars

----------------------------------------------------------------------------
(* Claims about the Musician hierarchy, checked under SpecMus *)

\* the same concrete variant, name, flag and specialization fields
SameMusician(a, b) ==
    /\ a.cls = b.cls
    /\ a.name = b.name
    /\ a.is_band_member = b.is_band_member
    /\ a.vocals = b.vocals
    /\ a.instrument = b.instrument

\* C7: two musicians compare equal with ==, in either operand order, if and
\* only if they are of the same concrete variant and have the same name, the
\* same is_band_member flag and the same specialization fields.
C7_MusicianEquality ==
    ret.op = "eq" =>
        /\ ret.val = SameMusician(mus[ret.slot], mus[ret.rhs])
        /\ PyEq(mus[ret.rhs], mus[ret.slot]) = ret.val

\* a plain Musician was compared with a Singer of the same name and flag
C7_Witness ==
    /\ ret.op = "eq"
    /\ ret.val = FALSE
    /\ mus[ret.slot].cls = "Musician"
    /\ mus[ret.rhs].cls = "Singer"
    /\ mus[ret.slot].name = mus[ret.rhs].name
    /\ mus[ret.slot].is_band_member = mus[ret.rhs].is_band_member

\* C9: construction and every later assignment to name store a string value
\* unchanged and replace a value that is not a string by 'unknown', for
\* Musician, Singer, Songwriter and SingerSongwriter alike.
C9_NameValidated ==
    ret.op \in {"new", "setname"} =>
        mus[ret.slot].name = (IF IsStr(ret.arg) THEN ret.arg ELSE Unknown)

\* a SingerSongwriter was constructed with a name that is not a string
C9_Witness ==
    /\ ret.op = "new"
    /\ ~IsStr(ret.arg)
    /\ mus[ret.slot].cls = "SingerSongwriter"
    /\ mus[ret.slot].name = Unknown

\* C10 as claimed: every musician's name is a non-empty string.
C10_NameNonEmpty ==
    \A s \in MusSlots :
        mus[s] # NoObj => IsStr(mus[s].name) /\ Len(mus[s].name.v) > 0

\* C10 as amended: every musician's name is a string, and it is non-empty
\* after a construction or assignment that was given anything but the empty
\* string (the empty string itself is stored unchanged).
C10_NameIsString ==
    /\ \A s \in MusSlots : mus[s] # NoObj => IsStr(mus[s].name)
    /\ (ret.op \in {"new", "setname"} /\ ret.arg # PyStr(<<>>)) =>
            Len(mus[ret.slot].name.v) > 0
    /\ (ret.op \in {"new", "setname"} /\ ret.arg = PyStr(<<>>)) =>
            mus[ret.slot].name = PyStr(<<>>)

\* a name that is not a string was assigned to an existing musician whose
\* name was empty before
C10_Witness ==
    /\ ret.op = "setname"
    /\ ~IsStr(ret.arg)
    /\ mus[ret.slot].name = Unknown
    /\ \E s \in MusSlots : mus[s] # NoObj /\ mus[s].name = PyStr(<<>>)

----------------------------------------------------------------------------
(* Claims about Band equality, checked under SpecEq *)

\* t holds the items of s in some order
IsPermutation(s, t) ==
    /\ Len(s) = Len(t)
    /\ \E p \in Permutations(DOMAIN s) : \A k \in DOMAIN s : t[k] = s[p[k]]

RECURSIVE Reverse(_)
Reverse(s) == IF s = <<>> THEN <<>> ELSE Reverse(Tail(s)) \o <<Head(s)>>

\* C1: Band(name, members, start, end) equals the Band built from the same
\* name, start and end and the reversed members, or any permutation of the
\* members.
C1_OrderIndependent ==
    (/\ ret.op = "eq"
     /\ inp[1].name = inp[2].name
     /\ inp[1].start = inp[2].start
     /\ inp[1].end = inp[2].end
     /\ \/ inp[2].members = Reverse(inp[1].members)
        \/ IsPermutation(inp[1].members, inp[2].members))
        => ret.out = "ok" /\ ret.val = TRUE

\* a band of two different members was compared with the band of the same
\* members reversed
C1_Witness ==
    /\ ret.op = "eq"
    /\ inp[1].name = inp[2].name
    /\ inp[1].start = inp[2].start
    /\ inp[1].end = inp[2].end
    /\ Len(inp[1].members) >= 2
    /\ inp[2].members = Reverse(inp[1].members)
    /\ inp[2].members # inp[1].members
    /\ ~SameMusician(inp[1].members[1], inp[1].members[2])
    /\ ret.val = TRUE

\* every member of s is equal to some member of t
Contained(s, t) ==
    \A j \in DOMAIN s : \E k \in DOMAIN t : SameMusician(s[j], t[k])

\* C8: two Bands are equal if and only if their names are equal, the years
\* of their start dates are equal, the years of their end dates are equal,
\* and every member of each is equal to some member of the other; month, day
\* and member multiplicity are ignored.
C8_BandEquality ==
    ret.op = "eq" =>
        /\ ret.out = "ok"
        /\ ret.val = (/\ band.name = band2.name
                      /\ band.start.year = band2.start.year
                      /\ band.end.year = band2.end.year
                      /\ Contained(band.members, band2.members)
                      /\ Contained(band2.members, band.members))

\* bands that differ in the number of members and in the day of the start
\* date compared equal
C8_Witness ==
    /\ ret.op = "eq"
    /\ ret.val = TRUE
    /\ Len(band.members) > Len(band2.members)
    /\ band.start # band2.start

----------------------------------------------------------------------------
(* Claims about Band construction and date validation, checked under SpecCtor *)

\* C2: constructing a Band whose name is not a string, or is a string of
\* length < 2, fails with BandNameError carrying that name, whatever the
\* members and dates, and no Band results; with a string name of length >= 2
\* the construction succeeds.
C2_BandNameChecked ==
    ret.op = "Band" =>
        IF IsStr(ret.arg) /\ Len(ret.arg.v) >= 2
        THEN /\ ret.out = "ok"
             /\ ret.val.cls = "Band"
             /\ ret.val.name = ret.arg
             /\ band = ret.val
        ELSE /\ ret.out = "BandNameError"
             /\ ret.exc_name = ret.arg
             /\ ret.val = NoBand

\* a construction with a one-character name and some members failed while
\* an earlier Band exists
C2_Witness ==
    /\ ret.op = "Band"
    /\ ret.arg = PyStr(<<"a">>)
    /\ ret.n_members > 0
    /\ ret.out = "BandNameError"
    /\ band # NoBand

\* C3: is_date_valid(d) is true if and only if d is a date with
\* 1960-01-01 <= d <= today, both bounds inclusive; it is false, not an
\* error, for a value that is not a date.
C3_DateValid ==
    ret.op = "is_date_valid" =>
        /\ (ret.out = "ok" /\ ret.val = TRUE)
              <=> (/\ ret.arg.tag = "date"
                   /\ DateLE(Date(1960, 1, 1), ret.arg)
                   /\ DateLE(ret.arg, ret.at))
        /\ ~IsDate(ret.arg) => (ret.out = "ok" /\ ret.val = FALSE)
        /\ ret.arg = Date(1959, 12, 31) => (ret.out = "ok" /\ ret.val = FALSE)
        /\ ret.arg = Date(1960, 1, 1) => (ret.out = "ok" /\ ret.val = TRUE)
        /\ ret.arg = ret.at => (ret.out = "ok" /\ ret.val = TRUE)
        /\ ret.arg = NextDay(ret.at) => (ret.out = "ok" /\ ret.val = FALSE)

\* the lower bound itself was found valid after the day had advanced
C3_Witness ==
    /\ ret.op = "is_date_valid"
    /\ ret.arg = Date(1960, 1, 1)
    /\ ret.val = TRUE
    /\ ret.at # def_today

----------------------------------------------------------------------------
(* Claims about Band iteration, checked under SpecIter *)

\* C4: after iter(band), the first len(members) advances return members[0],
\* members[1], ... in insertion order, none skipped or repeated.
C4_InsertionOrder ==
    (ret.op = "next" /\ hist.iters >= 1 /\ hist.calls <= Len(band.members))
        => ret.out = "ok" /\ ret.val = band.members[hist.calls]

\* the last of at least two members was returned
C4_Witness ==
    /\ ret.op = "next"
    /\ hist.iters >= 1
    /\ Len(band.members) >= 2
    /\ hist.calls = Len(band.members)
    /\ ret.out = "ok"
    /\ ret.val = band.members[Len(band.members)]

\* C5 as claimed: the advance after the last member raises StopIteration and
\* no other error.
C5_StopIteration ==
    (ret.op = "next" /\ hist.iters >= 1 /\ hist.calls = Len(band.members) + 1)
        => ret.out = "StopIteration"

\* C6: whenever iter(band) is called, also after an iteration that was
\* exhausted or abandoned part-way, the counter is back at the first member
\* and the following advances yield all members from the first.
C6_Restart ==
    /\ ret.op = "iter" => band.has_i /\ band.i = 0
    /\ (ret.op = "next" /\ hist.iters >= 2 /\ hist.calls <= Len(band.members))
            => ret.out = "ok" /\ ret.val = band.members[hist.calls]

\* a second iteration, started when the first was abandoned part-way,
\* returned the last member
C6_Witness ==
    /\ ret.op = "next"
    /\ hist.iters >= 2
    /\ hist.prev = "abandoned"
    /\ Len(band.members) >= 2
    /\ hist.calls = Len(band.members)
    /\ ret.out = "ok"

----------------------------------------------------------------------------
(* Claims about display strings and parsing, checked under SpecStr *)

\* the display string the contract gives a musician: name, membership, then
\* the instrument and the vocals of the variants that have them
Shown(m) ==
    m.name.v
        \o (IF m.is_band_member = PyTrue THEN <<" ", "(", "b", "a", "n", "d", " ", "m", "e", "m", "b", "e", "r", ")">>
            ELSE <<" ", "(", "s", "o", "l", "o", " ", "m", "u", "s", "i", "c", "i", "a", "n", ")">>)
        \o (IF IsInstance(m, "Songwriter") /\ m.instrument # PyNone
            THEN <<",", " ">> \o m.instrument.v ELSE <<>>)
        \o (IF IsInstance(m, "Singer") /\ m.vocals # PyNone
            THEN <<",", " ">> \o m.vocals.v ELSE <<>>)

\* C11: the display string of a Musician is '<name> (band member)' when
\* is_band_member is true and '<name> (solo musician)' otherwise; a Singer
\* appends ', <vocals value>' and a Songwriter ', <instrument value>'
\* exactly when the field holds an enumeration member, and nothing when the
\* field is None.  Singer('George Harrison', LEAD_VOCALS) is shown as
\* 'George Harrison (band member), lead vocals'.
C11_DisplayString ==
    ret.op = "str" =>
        /\ ret.val = PyStr(Shown(mus[1]))
        /\ mus[1].vocals \in {Absent, PyNone, LEAD_VOCALS}
        /\ mus[1].instrument \in {Absent, PyNone, RHYTHM_GUITAR}
        /\ (/\ mus[1].cls = "Singer"
            /\ mus[1].name = georgeHarrisonName
            /\ mus[1].is_band_member = PyTrue
            /\ mus[1].vocals = LEAD_VOCALS)
                => ret.val = PyStr(<<"G", "e", "o", "r", "g", "e", " ", "H", "a", "r", "r", "i", "s", "o", "n", " ", "(", "b", "a", "n", "d", " ", "m", "e", "m", "b", "e", "r", ")", ",", " ", "l", "e", "a", "d", " ", "v", "o", "c", "a", "l", "s">>)

\* a Singer named George Harrison with lead vocals has been printed
C11_Witness ==
    /\ ret.op = "str"
    /\ mus[1].cls = "Singer"
    /\ mus[1].vocals = LEAD_VOCALS
    /\ ret.val = PyStr(<<"G", "e", "o", "r", "g", "e", " ", "H", "a", "r", "r", "i", "s", "o", "n", " ", "(", "b", "a", "n", "d", " ", "m", "e", "m", "b", "e", "r", ")", ",", " ", "l", "e", "a", "d", " ", "v", "o", "c", "a", "l", "s">>)

\* C14: Musician.from_str is the inverse of the display string: for every
\* plain Musician m, with any string name and either flag,
\* Musician.from_str(str(m)) == m.
C14_FromStrInverse ==
    (ret.op = "round trip" /\ mus[1].cls = "Musician") =>
        (ret.out = "ok" /\ ret.val = TRUE)

\* s.endswith(p)
EndsWith(s, p) ==
    Len(s) >= Len(p) /\ SubSeq(s, Len(s) - Len(p) + 1, Len(s)) = p

\* s has the form '<name> (band member)' or '<name> (solo musician)'
WellFormed(s) ==
    EndsWith(s, <<" ", "(", "b", "a", "n", "d", " ", "m", "e", "m", "b", "e", "r", ")">>) \/ EndsWith(s, <<" ", "(", "s", "o", "l", "o", " ", "m", "u", "s", "i", "c", "i", "a", "n", ")">>)

\* C15: for every string that is not of the form '<name> (band member)' or
\* '<name> (solo musician)', Musician.from_str raises an error instead of
\* returning a Musician.
C15_MalformedRaises ==
    (ret.op = "from_str" /\ ~WellFormed(ret.arg)) => ret.out # "ok"

----------------------------------------------------------------------------
(* Claims about the display string of a Band, checked under SpecShow *)

\* the year of a date of the test data, in digits
YearText(y) ==
    CASE y = 1957 -> <<"1", "9", "5", "7">>
      [] y = 1962 -> <<"1", "9", "6", "2">>
      [] y = 1970 -> <<"1", "9", "7", "0">>
      [] y = 1971 -> <<"1", "9", "7", "1">>

\* m1, m2, ..., mk: the display strings of the members, each but the last
\* followed by a comma and a space
RECURSIVE Listed(_)
Listed(ms) ==
    IF Len(ms) = 1 THEN Str(ms[1])
    ELSE Str(ms[1]) \o <<",", " ">> \o Listed(Tail(ms))

\* C12: for a Band with at least one member the display string is
\* '<name>: <m1>, <m2>, ..., <mk> (<startYear>-<endYear>)', the mi being the
\* members' display strings in insertion order; The Beatles with John Lennon
\* and Paul McCartney, 1962-10-05 to 1970-04-11, is shown as 'The Beatles:
\* John Lennon (band member), Paul McCartney (band member) (1962-1970)'.
C12_BandDisplay ==
    (ret.op = "str" /\ band.members # <<>>) =>
        /\ ret.val = PyStr(band.name.v \o <<":", " ">> \o Listed(band.members)
                        \o <<" ", "(">> \o YearText(band.start.year) \o <<"-">>
                        \o YearText(band.end.year) \o <<")">>)
        /\ (/\ band.name = PyStr(<<"T", "h", "e", " ", "B", "e", "a", "t", "l", "e", "s">>)
            /\ band.members = <<johnLennonFull, paulMcCartney>>
            /\ band.start = Date(1962, 10, 5)
            /\ band.end = Date(1970, 4, 11))
                => ret.val = PyStr(<<"T", "h", "e", " ", "B", "e", "a", "t", "l", "e", "s", ":", " ", "J", "o", "h", "n", " ", "L", "e", "n", "n", "o", "n", " ", "(", "b", "a", "n", "d", " ", "m", "e", "m", "b", "e", "r", ")", ",", " ", "P", "a", "u", "l", " ", "M", "c", "C", "a", "r", "t", "n", "e", "y", " ", "(", "b", "a", "n", "d", " ", "m", "e", "m", "b", "e", "r", ")", " ", "(", "1", "9", "6", "2", "-", "1", "9", "7", "0", ")">>)

\* The Beatles with John Lennon and Paul McCartney have been printed
C12_Witness ==
    /\ ret.op = "str"
    /\ band.members = <<johnLennonFull, paulMcCartney>>
    /\ ret.val = PyStr(<<"T", "h", "e", " ", "B", "e", "a", "t", "l", "e", "s", ":", " ", "J", "o", "h", "n", " ", "L", "e", "n", "n", "o", "n", " ", "(", "b", "a", "n", "d", " ", "m", "e", "m", "b", "e", "r", ")", ",", " ", "P", "a", "u", "l", " ", "M", "c", "C", "a", "r", "t", "n", "e", "y", " ", "(", "b", "a", "n", "d", " ", "m", "e", "m", "b", "e", "r", ")", " ", "(", "1", "9", "6", "2", "-", "1", "9", "7", "0", ")">>)

\* C13: for a Band with no members the display string is exactly
\* '<name> (<startYear>-<endYear>)', with a single space between the name
\* and the opening parenthesis.
C13_EmptyBandDisplay ==
    (ret.op = "str" /\ band.members = <<>>) =>
        ret.val = PyStr(band.name.v \o <<" ", "(">> \o YearText(band.start.year)
                        \o <<"-">> \o YearText(band.end.year) \o <<")">>)

----------------------------------------------------------------------------
(* Claims about serialization, checked under SpecPersist *)

\* C16: each entity round-trips through the JSON functions of the
\* repository: decoding the encoded value of a Band, a Musician or a date
\* yields a value equal to the original.
C16_JsonRoundTrip ==
    ret.op = "json" => (ret.eq.out = "ok" /\ ret.eq.val = TRUE)

\* C17: loading the saved list of Bands yields a list of the same length
\* whose elements are pairwise equal, in order, to the saved Bands under
\* Band equality.
C17_PickleRoundTrip ==
    ret.op = "load" =>
        /\ Len(ret.bands1) = Len(bands)
        /\ \A k \in DOMAIN bands :
            /\ Band__eq__(bands[k], ret.bands1[k]) = [out |-> "ok", val |-> TRUE]
            /\ Band__eq__(ret.bands1[k], bands[k]) = [out |-> "ok", val |-> TRUE]
        /\ ret.eq = [out |-> "ok", val |-> TRUE]

\* two bands with members, differing in members and years, have been saved
\* and loaded as new objects
C17_Witness ==
    /\ ret.op = "load"
    /\ Len(bands) = 2
    /\ bands[1].members # <<>> /\ bands[2].members # <<>>
    /\ bands[1].members # bands[2].members
    /\ bands[1].start # bands[2].start
    /\ ret.bands1 # bands

----------------------------------------------------------------------------
(* Claims about playing, checked under SpecPlay *)

\* the capital letters the calls pass: title, rhythm count, gratitude, messages
Capitals == {"A", "B", "C", "D", "E", "F", "R", "S", "T", "U"}
IsCapital(c) == c \in Capitals
\* the capital letters of a string, in order
Marks(s) == SelectSeq(s, IsCapital)

\* the strings of a sequence one after the other
RECURSIVE Flatten(_)
Flatten(strs) == IF strs = <<>> THEN <<>> ELSE Head(strs) \o Flatten(Tail(strs))

\* the values of the keywords other than rhythm_count, in order
IsMessage(kv) == kv.key # RhythmCount
Messages(kwargs) == Values(SelectSeq(kwargs, IsMessage))

\* C18: play returns a string that embeds the musician's name, the quoted
\* title, the rhythm count (when given) exactly once, every gratitude
\* phrase in order and every other message value in order, for every call:
\* no message is dropped when rhythm_count is not supplied and rhythm_count
\* is not repeated among the messages when it is not the first keyword.
C18_PlayEmbedsAll ==
    ret.op = "play" =>
        /\ StartsWith(ret.val, mus[1].name.v \o <<" ", "p", "l", "a", "y", "i", "n", "g", " ", "\"", "S", "\"", ":", " ">>)
        /\ Marks(ret.val) =
            SongTitle
                \o (IF HasKey(ret.kwargs, RhythmCount) THEN RhythmValue ELSE <<>>)
                \o Flatten(ret.args)
                \o Flatten(Messages(ret.kwargs))

\* C19: Singer.play returns exactly what the base Musician.play returns for
\* the same name and arguments, followed by '\nYeah!'; Songwriter.play, and
\* play_song on a Musician or a Songwriter, return exactly the base
\* Musician.play result (play_song on a singer returns what its play returns).
C19_SingerPlay ==
    LET base == Musician__play(mus[1], SongTitle, ret.args, ret.kwargs)
    IN  ret.op \in {"play", "play_song"} =>
            IF mus[1].cls \in {"Singer", "SingerSongwriter"}
            THEN ret.val = base \o <<"\n", "Y", "e", "a", "h", "!">>
            ELSE ret.val = base

\* a Singer has played with gratitude, a rhythm count and a message
C19_Witness ==
    /\ ret.op = "play"
    /\ mus[1].cls = "Singer"
    /\ ret.args # <<>>
    /\ Len(ret.kwargs) >= 2 /\ ret.kwargs[1].key = RhythmCount
    /\ ret.val = mus[1].name.v \o <<" ", "p", "l", "a", "y", "i", "n", "g", " ", "\"", "S", "\"", ":", " ", "R", " ", ".", ".", ".", "p", "l", "a", "y", "i", "n", "g", ".", ".", ".", " ">>
                    \o Join(<<" ">>, ret.args) \o <<" ">> \o ret.kwargs[2].value
                    \o <<"\n", "Y", "e", "a", "h", "!">>

----------------------------------------------------------------------------
(* Claims about nested iteration, checked under SpecNested *)

\* every pair of positions of the band's members
AllPairs == (1..Len(band.members)) \X (1..Len(band.members))

\* C20: the Band is its own iterator with one position counter stored on
\* the Band.  When the inner loop starts while the outer one is in progress
\* the position is back at the first member although the outer loop has
\* been given members; from then on the counter follows the inner loop, and
\* the outer loop continues from wherever the inner one left it; so for a
\* band of two or more members the loops never visit every pair.
C20_SharedCounter ==
    /\ loops.pc = "inner_next" =>
        /\ band.has_i /\ band.i = loops.inner_got
        /\ loops.outer_got >= 1
    /\ loops.pc = "inner_iter" => band.i = loops.a
    /\ Len(band.members) >= 2 => loops.pairs # AllPairs
    /\ (loops.pc \in {"raised", "done"} /\ ~loops.broke) =>
        loops.pairs = {1} \X (1..Len(band.members))

\* the two loops have run, without a break, over a band of two members: the
\* body saw the first member paired with each, and the second with none
C20_Witness ==
    /\ loops.pc = "raised" /\ ~loops.broke
    /\ Len(band.members) = 2
    /\ loops.outer_got = 1 /\ loops.inner_got = 2
    /\ loops.pairs = {<<1, 1>>, <<1, 2>>}

----------------------------------------------------------------------------
(* Claims about Band defaults and the name of a Band, checked under SpecCtor and SpecRename *)

\* C21: a Band constructed without start and end gets as those dates the
\* day that is current when the constructor is called, also when the
\* calendar day has advanced since the Band class was loaded.
C21_DefaultIsCallDay ==
    (ret.op = "Band" /\ ret.out = "ok" /\ ret.defaults) =>
        (ret.val.start = ret.at /\ ret.val.end = ret.at)

\* C22: in every reachable state each existing Band's name is a string of
\* length >= 2, right after construction and after any later assignment to
\* the Band's name field.
C22_BandNameInvariant ==
    band # NoBand => (IsStr(band.name) /\ Len(band.name.v) >= 2)

----------------------------------------------------------------------------
(* Claims about the iteration counter, checked under SpecIter *)

\* C23: through any sequence of iter(band) and next(band) calls, also after
\* exhaustion, the counter i stays within 0..len(members): iter resets it to
\* 0, an advance that returns a member increments it by exactly 1 and an
\* advance that fails leaves it unchanged.
C23_CounterInRange ==
    [][/\ band'.has_i => (0 <= band'.i /\ band'.i <= Len(band'.members))
       /\ ret'.op = "iter" => (band'.has_i /\ band'.i = 0)
       /\ (ret'.op = "next" /\ ret'.out = "ok") => band'.i = band.i + 1
       /\ (ret'.op = "next" /\ ret'.out # "ok") => band'.i = band.i]_vars

\* a band of two members or more was advanced twice past its last member,
\* and the counter stands at the number of members
C23_Witness ==
    /\ ret.op = "next" /\ ret.out = "IndexError"
    /\ Len(band.members) >= 2
    /\ hist.iters >= 1 /\ hist.calls = Len(band.members) + 2
    /\ band.i = Len(band.members)

\* C24: once an iteration over a Band has returned all its members, every
\* further advance fails without returning a member, and keeps failing
\* until iter(band) is called again.
C24_StaysExhausted ==
    (ret.op = "next" /\ hist.iters >= 1 /\ hist.calls > Len(band.members)) =>
        (ret.out \in {"IndexError", "StopIteration"} /\ band.i = Len(band.members))

\* in a second iteration over a band with members, started after the first
\* was exhausted, the second advance past the last member has failed
C24_Witness ==
    /\ ret.op = "next" /\ ret.out # "ok"
    /\ Len(band.members) >= 1
    /\ hist.iters = 2 /\ hist.prev = "exhausted"
    /\ hist.calls = Len(band.members) + 2

----------------------------------------------------------------------------
(* Claims about what the Band methods leave alone, checked under SpecFrame *)

\* C25: iter(band), next(band), str(band), band == band2 and
\* Band.is_date_valid leave the Band's name, members (content and order),
\* start and end unchanged; the only state an iteration step changes is the
\* iteration counter, and the other calls change nothing of the Band.
C25_Frame ==
    [][/\ band'.name = band.name
       /\ band'.members = band.members
       /\ band'.start = band.start
       /\ band'.end = band.end
       /\ band2' = band2
       /\ band' # band => ret'.op \in {"iter", "next"}]_vars

\* a band of two members or more, iterated to its second member, has been
\* printed
C25_Witness ==
    /\ ret.op = "str"
    /\ Len(band.members) >= 2
    /\ band.has_i /\ band.i = 2
    /\ band.name = PyStr(<<"T", "B">>)
    /\ band.start = Date(1962, 10, 5) /\ band.end = Date(1970, 4, 11)

\* C26: comparing a Band with a value that is not a Band (a number, a
\* string, a Musician that has a name but no members) evaluates to False
\* and never raises an error.
C26_NonBandIsFalse ==
    ret.op = "eq other" => (ret.out = "ok" /\ ret.val = FALSE)

----------------------------------------------------------------------------
(* Claims about advancing a new Band, checked under SpecIter *)

\* C27: calling next(band) on a Band on which iter(band) has never been
\* called either returns the first member or signals exhaustion
\* (StopIteration), and never fails because the counter is uninitialised.
C27_FreshAdvance ==
    (ret.op = "next" /\ hist.iters = 0) =>
        \/ ret.out = "ok" /\ ret.val = band.members[1]
        \/ ret.out = "StopIteration"

====
